---- MODULE Spec2Model ----
(***************************************************************************)
(* lean-mcp: a filesystem tool server (src/server.py), the chat client     *)
(* that drives it from a model's tool calls (src/ai_client.py) and the     *)
(* server's smoke test (src/test_server.py).                               *)
(*                                                                         *)
(* The specifications of the module:                                       *)
(*   Spec            the interactive loop of ai_client.main, its tool      *)
(*                   calls run by the server's tools                       *)
(*   FairSpec        Spec with the awaited calls coming back               *)
(*   SpecServer      one call of any tool on any filesystem                *)
(*   SpecRoundTrip   write, read, delete, read of one path                 *)
(*   SpecMkdirTwice  create_directory called twice on one path             *)
(*   SpecSchema      build_openai_tool_schema on any tool definition       *)
(* The filesystem follows POSIX/Linux semantics for an unprivileged user.  *)
(***************************************************************************)
EXTENDS Naturals, Sequences, FiniteSets, TLC

VARIABLES
    fs,          \* server: the filesystem below the working directory
    fs_before,   \* server: the filesystem as it was before the last tool call
    last,        \* server: the last tool call and what it returned
    fs_start,    \* scenario: the filesystem the script started from
    script,      \* scenario: the tool calls to make, in order
    results,     \* scenario: what the calls made so far returned
    heap,        \* schema: the dict objects, by reference
    tool,        \* schema: the tool definition list_tools() gave
    fetched,     \* schema: the tool's input schema as it was fetched
    spec_out,    \* schema: what build_openai_tool_schema returned
    pc,          \* client: where main is
    connected,   \* client: the session to the tool server is open
    messages,    \* client: the conversation
    typed,       \* client: the line input() last gave
    user_input,  \* client: that line, stripped
    request,     \* client: the messages sent with the last chat-completion call
    response,    \* client: the last response of the chat-completion service
    tool_calls,  \* client: the tool calls of the response being executed
    idx,         \* client: position of the for loop in tool_calls
    dispatched,  \* client: ids of the tool calls sent to the server, in order
    faulted,     \* client: an exception has left main
    turns,       \* client: user messages appended so far
    calls,       \* client: chat-completion calls made in the current turn
    next_id      \* client: the next tool-call id the service will issue

serverVars == <<fs, fs_before, last>>
scenarioVars == <<fs_start, script, results>>
schemaVars == <<heap, tool, fetched, spec_out>>

clientVars == <<pc, connected, messages, typed, user_input, request, response,
                tool_calls, idx, dispatched, faulted, turns, calls, next_id>>

vars == <<fs, fs_before, last, fs_start, script, results,
          heap, tool, fetched, spec_out,
          pc, connected, messages, typed, user_input, request, response,
          tool_calls, idx, dispatched, faulted, turns, calls, next_id>>

-----------------------------------------------------------------------------
(* Bounds                                                                  *)

MaxNodes == 2        \* entries that exist below the working directory
MaxLen == 1          \* characters of a text, bytes of a file
MaxProps == 2        \* parameters a tool declares
MaxTurns == 2        \* user messages in a session
MaxCalls == 2        \* tool calls in one response
MaxIds == 3          \* tool calls the service requests in a session

-----------------------------------------------------------------------------
(* src/ai_client.py: build_openai_tool_schema                              *)

SeqsUpTo(S, n) == UNION {[1..k -> S] : k \in 0..n}

Range(q) == {q[i] : i \in DOMAIN q}

NoDupSeqs(S, n) == {q \in SeqsUpTo(S, n) : Cardinality(Range(q)) = Len(q)}

PropNames == {"file_path", "content", "directory_path"}

\* a JSON-schema dict: the keys it holds, in insertion order, and their
\* values ("properties" by the names it declares, in order).  The value of
\* a key the dict does not hold is the empty one.
EmptyDict ==
    [keys |-> <<>>, type |-> "", properties |-> <<>>, required |-> <<>>,
     additionalProperties |-> FALSE]

\* d[k] = v
SetItem(d, k, v) ==
    [d EXCEPT !.keys = IF k \in Range(@) THEN @ ELSE Append(@, k), ![k] = v]

\* d.get(k, default)
Get(d, k, default) == IF k \in Range(d.keys) THEN d[k] ELSE default

\* the input schemas a tool may declare
InputSchemas ==
    {LET d1 == SetItem(EmptyDict, "type", "object")
         d2 == IF c.hasProps THEN SetItem(d1, "properties", c.props) ELSE d1
         d3 == IF c.hasReq THEN SetItem(d2, "required", c.req) ELSE d2
     IN IF c.hasAddl THEN SetItem(d3, "additionalProperties", c.addl) ELSE d3 :
       c \in {x \in [hasProps : BOOLEAN, props : NoDupSeqs(PropNames, MaxProps),
                     hasReq : BOOLEAN, req : NoDupSeqs(PropNames, MaxProps),
                     hasAddl : BOOLEAN, addl : BOOLEAN] :
                 /\ ~x.hasProps => x.props = <<>>
                 /\ ~x.hasReq => x.req = <<>>
                 /\ ~x.hasAddl => x.addl = FALSE
                 /\ Range(x.req) \subseteq Range(x.props)}}

\* a Python value that is None or a string
None == [none |-> TRUE, str |-> ""]
Str(t) == [none |-> FALSE, str |-> t]
Truthy(v) == ~v.none /\ v.str # ""

\* the function with schema = tool.inputSchema, no copy made
build_openai_tool_schema_no_copy(h, t) ==
    LET ref == t.inputSchema
        h1 == [h EXCEPT ![ref] = SetItem(@, "additionalProperties", FALSE)]
        props == Get(h1[ref], "properties", <<>>)
        h2 == [h1 EXCEPT ![ref] = SetItem(@, "required", props)]
    IN [heap |-> h2,
        value |-> [type |-> "function",
                   name |-> t.name,
                   description |-> IF Truthy(t.description) THEN t.description.str
                                   ELSE "Function " \o t.name,
                   parameters |-> ref,
                   strict |-> TRUE]]

\* build_openai_tool_schema(tool) on heap h: the heap it leaves and the
\* dict it returns (its "function" entries, "parameters" by reference)
build_openai_tool_schema(h, t) ==
    LET ref == Len(h) + 1
        h0 == Append(h, h[t.inputSchema])
        h1 == [h0 EXCEPT ![ref] = SetItem(@, "additionalProperties", FALSE)]
        props == Get(h1[ref], "properties", <<>>)
        h2 == [h1 EXCEPT ![ref] = SetItem(@, "required", props)]
    IN [heap |-> h2,
        value |-> [type |-> "function",
                   name |-> t.name,
                   description |-> IF Truthy(t.description) THEN t.description.str
                                   ELSE "Function " \o t.name,
                   parameters |-> ref,
                   strict |-> TRUE]]

NoSpec == [type |-> "", name |-> "", description |-> "", parameters |-> 0,
           strict |-> FALSE]

NoSchema ==
    /\ heap = <<>>
    /\ tool = [name |-> "", description |-> None, inputSchema |-> 0]
    /\ fetched = EmptyDict
    /\ spec_out = NoSpec

-----------------------------------------------------------------------------
(* Texts and files                                                         *)

CR == "\r"
LF == "\n"
BAD == "\\xff"       \* a byte that is not valid UTF-8

Chars == {"x", CR, LF}

Texts == SeqsUpTo(Chars, MaxLen)
\* what a file may hold: any text, or bytes that do not decode
FileData == Texts \cup {<<BAD>>}

RECURSIVE Join(_)
Join(t) == IF t = <<>> THEN "" ELSE Head(t) \o Join(Tail(t))

\* os.linesep of the platform
LineSep == <<LF>>

\* text-mode write (newline=None): every "\n" becomes os.linesep; the
\* characters modelled here encode to one UTF-8 byte each
RECURSIVE Encode(_)
Encode(t) ==
    IF t = <<>> THEN <<>>
    ELSE (IF Head(t) = LF THEN LineSep ELSE <<Head(t)>>) \o Encode(Tail(t))

\* text-mode read (newline=None): "\r\n" and a lone "\r" become "\n"
RECURSIVE UniversalNewlines(_)
UniversalNewlines(b) ==
    IF b = <<>> THEN <<>>
    ELSE IF Head(b) = CR
         THEN IF Len(b) >= 2 /\ b[2] = LF
              THEN <<LF>> \o UniversalNewlines(Tail(Tail(b)))
              ELSE <<LF>> \o UniversalNewlines(Tail(b))
         ELSE <<Head(b)>> \o UniversalNewlines(Tail(b))

ValidUtf8(b) == \A i \in 1..Len(b) : b[i] # BAD

-----------------------------------------------------------------------------
(* Paths and the filesystem                                                *)

Names == {"a", "b"}
Root == <<>>
Paths == {<<x>> : x \in Names} \cup {<<x, y>> : x \in Names, y \in Names}
ArgPaths == Paths \cup {Root}

\* str(path): the path as the caller passed it
PathStr(p) ==
    IF p = Root THEN "."
    ELSE IF Len(p) = 1 THEN p[1]
    ELSE p[1] \o "/" \o p[2]

Parent(p) == IF p = Root THEN Root ELSE SubSeq(p, 1, Len(p) - 1)

NoNode == [kind |-> "none", data |-> <<>>, locked |-> FALSE]
RootNode == [kind |-> "dir", data |-> <<>>, locked |-> FALSE]
DirNode(l) == [kind |-> "dir", data |-> <<>>, locked |-> l]
FileNode(d, l) == [kind |-> "file", data |-> d, locked |-> l]

ExistingNodes ==
    {DirNode(l) : l \in BOOLEAN} \cup {FileNode(d, l) : d \in FileData, l \in BOOLEAN}

Node(f, p) == IF p = Root THEN RootNode ELSE f[p]

EmptyFs == [p \in Paths |-> NoNode]

NodeCount(f) == Cardinality({p \in Paths : f[p].kind # "none"})

WellFormed(f) ==
    \A p \in Paths :
        f[p].kind # "none" => Node(f, Parent(p)).kind = "dir"

\* the sets of at most MaxNodes paths that can be the entries of a filesystem
Shapes ==
    {E \in SUBSET Paths :
        /\ Cardinality(E) <= MaxNodes
        /\ \A p \in E : Parent(p) = Root \/ Parent(p) \in E}

\* the filesystem whose entries are the paths of E, with the nodes g gives
FsOf(E, g) == [p \in Paths |-> IF p \in E THEN g[p] ELSE NoNode]

\* fs is any filesystem of at most MaxNodes entries
AnyFs ==
    \E E \in Shapes :
        \E g \in [E -> ExistingNodes] :
            /\ WellFormed(FsOf(E, g))
            /\ fs = FsOf(E, g)

-----------------------------------------------------------------------------
(* The operating system's calls.  Each gives an errno name, "OK" on success *)

\* the walk through the proper ancestors of p, from the top
RECURSIVE AncErr(_, _, _)
AncErr(f, p, i) ==
    IF i >= Len(p) THEN "OK"
    ELSE LET n == f[SubSeq(p, 1, i)]
         IN IF n.kind = "none" THEN "ENOENT"
            ELSE IF n.kind = "file" THEN "ENOTDIR"
            ELSE IF n.locked THEN "EACCES"
            ELSE AncErr(f, p, i + 1)

\* stat(2)
Stat(f, p) ==
    LET e == AncErr(f, p, 1)
    IN IF e # "OK" THEN e
       ELSE IF Node(f, p).kind = "none" THEN "ENOENT" ELSE "OK"

\* open(2) for reading, as io.open does it
OpenRead(f, p) ==
    LET e == Stat(f, p)
    IN IF e # "OK" THEN e
       ELSE IF Node(f, p).locked THEN "EACCES"
       ELSE IF Node(f, p).kind = "dir" THEN "EISDIR"
       ELSE "OK"

\* open(2) with O_WRONLY | O_CREAT | O_TRUNC
OpenWrite(f, p) ==
    LET e == AncErr(f, p, 1)
    IN IF e # "OK" THEN e
       ELSE IF Node(f, p).kind = "dir" THEN "EISDIR"
       ELSE IF Node(f, p).kind = "file" /\ Node(f, p).locked THEN "EACCES"
       ELSE "OK"

\* mkdir(2)
OsMkdir(f, p) ==
    LET e == AncErr(f, p, 1)
    IN IF p = Root THEN "EEXIST"
       ELSE IF e # "OK" THEN e
       ELSE IF f[p].kind # "none" THEN "EEXIST"
       ELSE "OK"

\* unlink(2) of something that is not a directory
OsUnlink(f, p) ==
    LET e == Stat(f, p)
    IN IF e # "OK" THEN e
       ELSE IF Node(f, p).kind = "dir" THEN "EISDIR"
       ELSE "OK"

\* listdir(3)
OsListdir(f, p) ==
    LET e == Stat(f, p)
    IN IF e # "OK" THEN e
       ELSE IF Node(f, p).kind # "dir" THEN "ENOTDIR"
       ELSE IF Node(f, p).locked THEN "EACCES"
       ELSE "OK"

-----------------------------------------------------------------------------
(* Python's exceptions                                                     *)

\* the class hierarchy: each class's base
BaseOf ==
    [FileNotFoundError |-> "OSError", PermissionError |-> "OSError",
     IsADirectoryError |-> "OSError", NotADirectoryError |-> "OSError",
     FileExistsError |-> "OSError", OSError |-> "Exception",
     UnicodeDecodeError |-> "ValueError", ValueError |-> "Exception",
     Exception |-> "BaseException", BaseException |-> "object"]

RECURSIVE IsSubclass(_, _)
IsSubclass(c, base) ==
    IF c = base THEN TRUE
    ELSE IF c = "object" THEN FALSE
    ELSE IsSubclass(BaseOf[c], base)

\* the OSError subclass Python raises for an errno
ErrClass(e) ==
    CASE e = "ENOENT" -> "FileNotFoundError"
      [] e = "EACCES" -> "PermissionError"
      [] e = "EISDIR" -> "IsADirectoryError"
      [] e = "ENOTDIR" -> "NotADirectoryError"
      [] e = "EEXIST" -> "FileExistsError"

\* str() of that OSError
ErrText(e, p) ==
    (CASE e = "ENOENT" -> "[Errno 2] No such file or directory: '"
       [] e = "EACCES" -> "[Errno 13] Permission denied: '"
       [] e = "EISDIR" -> "[Errno 21] Is a directory: '"
       [] e = "ENOTDIR" -> "[Errno 20] Not a directory: '"
       [] e = "EEXIST" -> "[Errno 17] File exists: '") \o PathStr(p) \o "'"

\* what running a function gives: a value, or an exception with its text;
\* either way the filesystem it leaves
Returns(v, f) == [exc |-> "none", val |-> v, msg |-> "", fs |-> f]
Raises(c, m, f) == [exc |-> c, val |-> "", msg |-> m, fs |-> f]
RaisesOs(e, p, f) == Raises(ErrClass(e), ErrText(e, p), f)

-----------------------------------------------------------------------------
(* pathlib                                                                 *)

\* Path.exists() and Path.is_dir() stat the path.  ENOENT and ENOTDIR mean
\* "no"; any other fault is raised by the interpreters that ignore only
\* those (strict) and means "no" for the interpreters that ignore every
\* OSError.  The answer is "yes", "no" or "raise".
PathExists(f, p, strict) ==
    LET e == Stat(f, p)
    IN IF e = "OK" THEN "yes"
       ELSE IF e \in {"ENOENT", "ENOTDIR"} THEN "no"
       ELSE IF strict THEN "raise" ELSE "no"

PathIsDir(f, p, strict) ==
    LET e == Stat(f, p)
    IN IF e = "OK" THEN (IF Node(f, p).kind = "dir" THEN "yes" ELSE "no")
       ELSE IF e \in {"ENOENT", "ENOTDIR"} THEN "no"
       ELSE IF strict THEN "raise" ELSE "no"

\* Path.mkdir(parents=..., exist_ok=...)
RECURSIVE PathMkdir(_, _, _, _)
PathMkdir(f, p, parents, exist_ok) ==
    LET e == OsMkdir(f, p)
    IN IF e = "OK" THEN Returns("", [f EXCEPT ![p] = DirNode(FALSE)])
       ELSE IF e = "ENOENT"
            THEN IF ~parents \/ Parent(p) = p
                 THEN RaisesOs(e, p, f)
                 ELSE LET up == PathMkdir(f, Parent(p), TRUE, TRUE)
                      IN IF up.exc # "none" THEN up
                         ELSE PathMkdir(up.fs, p, FALSE, exist_ok)
       ELSE IF ~exist_ok \/ PathIsDir(f, p, TRUE) # "yes"
            THEN RaisesOs(e, p, f)
            ELSE Returns("", f)

\* Path.read_text(encoding='utf-8')
PathReadText(f, p) ==
    LET e == OpenRead(f, p)
    IN IF e # "OK" THEN RaisesOs(e, p, f)
       ELSE IF ~ValidUtf8(f[p].data)
            THEN Raises("UnicodeDecodeError",
                        "'utf-8' codec can't decode byte 0xff", f)
       ELSE Returns(Join(UniversalNewlines(f[p].data)), f)

\* Path.write_text(content, encoding='utf-8')
PathWriteText(f, p, content) ==
    LET e == OpenWrite(f, p)
    IN IF e # "OK" THEN RaisesOs(e, p, f)
       ELSE Returns("", [f EXCEPT ![p] = FileNode(Encode(content), f[p].locked)])

\* Path.unlink()
PathUnlink(f, p) ==
    LET e == OsUnlink(f, p)
    IN IF e # "OK" THEN RaisesOs(e, p, f)
       ELSE Returns("", [f EXCEPT ![p] = NoNode])

-----------------------------------------------------------------------------
(* src/server.py: the functions the tools hand to handle_file_operation    *)

\* _read
Read(f, p) == PathReadText(f, p)

\* _write
Write(f, p, content) ==
    LET up == PathMkdir(f, Parent(p), TRUE, TRUE)
    IN IF up.exc # "none" THEN up
       ELSE LET w == PathWriteText(up.fs, p, content)
            IN IF w.exc # "none" THEN w
               ELSE Returns("Successfully wrote " \o ToString(Len(content))
                            \o " characters to '" \o PathStr(p) \o "'", w.fs)

\* one entry of the listing: name, type and size
ListItem(f, p) ==
    "{name: " \o p[Len(p)]
    \o ", type: " \o (IF f[p].kind = "dir" THEN "directory" ELSE "file")
    \o ", size: " \o (IF f[p].kind = "file" THEN ToString(Len(f[p].data)) ELSE "null")
    \o "}"

\* the entries of directory p, sorted by name
RECURSIVE ListItems(_, _, _)
ListItems(f, p, names) ==
    IF names = {} THEN ""
    ELSE LET n == CHOOSE x \in names : \A y \in names : x = y \/ (x = "a" /\ y = "b")
             q == p \o <<n>>
         IN (IF q \in Paths /\ f[q].kind # "none" THEN ListItem(f, q) ELSE "")
            \o ListItems(f, p, names \ {n})

\* _list
List(f, p, strict) ==
    LET ex == PathExists(f, p, strict)
        isd == PathIsDir(f, p, strict)
        e == OsListdir(f, p)
    IN IF ex = "raise" THEN RaisesOs("EACCES", p, f)
       ELSE IF ex = "no"
            THEN Raises("FileNotFoundError", "Directory not found: " \o PathStr(p), f)
       ELSE IF isd = "no"
            THEN Raises("NotADirectoryError",
                        "Path is not a directory: " \o PathStr(p), f)
       ELSE IF e # "OK" THEN RaisesOs(e, p, f)
       ELSE Returns("[" \o ListItems(f, p, Names) \o "]", f)

\* _delete with path.unlink(missing_ok=True)
DeleteMissingOk(f, p, strict) ==
    LET isd == PathIsDir(f, p, strict)
    IN IF isd = "raise" THEN RaisesOs("EACCES", p, f)
       ELSE IF isd = "yes"
            THEN Raises("IsADirectoryError", "Use delete_directory for directories", f)
       ELSE LET u == PathUnlink(f, p)
            IN IF u.exc \notin {"none", "FileNotFoundError"} THEN u
               ELSE Returns("Successfully deleted file '" \o PathStr(p) \o "'", u.fs)

\* _delete removing an empty directory with path.rmdir()
DeleteRemovesDir(f, p, strict) ==
    LET isd == PathIsDir(f, p, strict)
    IN IF isd = "raise" THEN RaisesOs("EACCES", p, f)
       ELSE IF isd = "yes"
            THEN IF p = Root \/ \E q \in Paths : Parent(q) = p /\ f[q].kind # "none"
                 THEN Raises("OSError", "[Errno 39] Directory not empty", f)
                 ELSE Returns("Successfully deleted file '" \o PathStr(p) \o "'",
                              [f EXCEPT ![p] = NoNode])
       ELSE LET u == PathUnlink(f, p)
            IN IF u.exc # "none" THEN u
               ELSE Returns("Successfully deleted file '" \o PathStr(p) \o "'", u.fs)

\* _delete
Delete(f, p, strict) ==
    LET isd == PathIsDir(f, p, strict)
    IN IF isd = "raise" THEN RaisesOs("EACCES", p, f)
       ELSE IF isd = "yes"
            THEN Raises("IsADirectoryError", "Use delete_directory for directories", f)
       ELSE LET u == PathUnlink(f, p)
            IN IF u.exc # "none" THEN u
               ELSE Returns("Successfully deleted file '" \o PathStr(p) \o "'", u.fs)

\* _create with path.mkdir(parents=True), exist_ok left out
CreateNoExistOk(f, p) ==
    LET m == PathMkdir(f, p, TRUE, FALSE)
    IN IF m.exc # "none" THEN m
       ELSE Returns("Successfully created directory '" \o PathStr(p) \o "'", m.fs)

\* _create
Create(f, p) ==
    LET m == PathMkdir(f, p, TRUE, TRUE)
    IN IF m.exc # "none" THEN m
       ELSE Returns("Successfully created directory '" \o PathStr(p) \o "'", m.fs)

\* _info
Info(f, p, strict) ==
    LET ex == PathExists(f, p, strict)
        n == Node(f, p)
    IN IF ex = "raise" THEN RaisesOs("EACCES", p, f)
       ELSE IF ex = "no"
            THEN Raises("FileNotFoundError", "Path not found: " \o PathStr(p), f)
       ELSE Returns("{name: " \o (IF p = Root THEN "" ELSE p[Len(p)])
                    \o ", type: " \o (IF n.kind = "dir" THEN "directory" ELSE "file")
                    \o ", size: " \o (IF n.kind = "file" THEN ToString(Len(n.data))
                                      ELSE "blocksize")
                    \o ", is_readable: " \o (IF n.locked THEN "false" ELSE "true")
                    \o ", is_writable: " \o (IF n.locked THEN "false" ELSE "true")
                    \o (IF n.kind = "file" THEN ", extension: " ELSE "")
                    \o "}", f)

-----------------------------------------------------------------------------
(* src/server.py: handle_file_operation                                    *)

\* what the call of a tool gives its caller: the string returned, or the
\* exception that leaves it
Answer(text) == [raised |-> "none", text |-> text]
Propagates(c) == [raised |-> c, text |-> ""]

NotFoundMsg(p) == "Error: File not found - '" \o PathStr(p) \o "'"
PermissionMsg(p) == "Error: Permission denied - '" \o PathStr(p) \o "'"
IsADirectoryMsg(p) == "Error: Path is a directory, not a file - '" \o PathStr(p) \o "'"
GenericMsg(operation, m) == "Error in '" \o operation \o "': " \o m

\* handle_file_operation without its last clause, except Exception
handle_file_operation_no_catch_all(operation, p, out) ==
    IF out.exc = "none" THEN Answer(out.val)
    ELSE IF IsSubclass(out.exc, "FileNotFoundError") THEN Answer(NotFoundMsg(p))
    ELSE IF IsSubclass(out.exc, "PermissionError") THEN Answer(PermissionMsg(p))
    ELSE IF IsSubclass(out.exc, "IsADirectoryError") THEN Answer(IsADirectoryMsg(p))
    ELSE Propagates(out.exc)

\* handle_file_operation logging the exception and raising it again
handle_file_operation_reraise(operation, p, out) ==
    IF out.exc = "none" THEN Answer(out.val) ELSE Propagates(out.exc)

\* the except clauses, tried in the order written
handle_file_operation(operation, p, out) ==
    IF out.exc = "none" THEN Answer(out.val)
    ELSE IF IsSubclass(out.exc, "FileNotFoundError") THEN Answer(NotFoundMsg(p))
    ELSE IF IsSubclass(out.exc, "PermissionError") THEN Answer(PermissionMsg(p))
    ELSE IF IsSubclass(out.exc, "IsADirectoryError") THEN Answer(IsADirectoryMsg(p))
    ELSE IF IsSubclass(out.exc, "Exception") THEN Answer(GenericMsg(operation, out.msg))
    ELSE Propagates(out.exc)

-----------------------------------------------------------------------------
(* src/ai_client.py: messages                                              *)

\* a message of the conversation; an assistant message without tool calls
\* and the other roles have no "tool_calls" (the empty sequence here), and
\* only a tool message has a "tool_call_id" (0 here for none)
Message(role, content, tcs, id) ==
    [role |-> role, content |-> content, tool_calls |-> tcs, tool_call_id |-> id]

SystemMessage ==
    Message("system", Str("You are a helpful filesystem assistant."), <<>>, 0)

NoResponse == [content |-> None, tool_calls |-> <<>>]

\* main before it runs
NoClient ==
    /\ pc = "start"
    /\ connected = FALSE
    /\ messages = <<>>
    /\ typed = <<>>
    /\ user_input = <<>>
    /\ request = <<>>
    /\ response = NoResponse
    /\ tool_calls = <<>>
    /\ idx = 1
    /\ dispatched = <<>>
    /\ faulted = FALSE
    /\ turns = 0
    /\ calls = 0
    /\ next_id = 1

-----------------------------------------------------------------------------
(* src/server.py: the tools                                                *)

Ops == {"read_file", "write_file", "list_directory", "delete_file",
        "create_directory", "file_info"}

\* the function a tool hands to handle_file_operation, run on filesystem f
ToolFunc(f, op, p, content, strict) ==
    CASE op = "read_file" -> Read(f, p)
      [] op = "write_file" -> Write(f, p, content)
      [] op = "list_directory" -> List(f, p, strict)
      [] op = "delete_file" -> Delete(f, p, strict)
      [] op = "create_directory" -> Create(f, p)
      [] op = "file_info" -> Info(f, p, strict)

\* a tool called on filesystem f: the exception its function raised, what
\* the call gives its caller, and the filesystem it leaves
RunTool(f, op, p, content, strict) ==
    LET out == ToolFunc(f, op, p, content, strict)
        ans == handle_file_operation(op, p, out)
    IN [exc |-> out.exc, msg |-> out.msg, raised |-> ans.raised,
        ret |-> ans.text, fs |-> out.fs]

NoCall == [op |-> "none", path |-> Root, content |-> <<>>,
           exc |-> "none", msg |-> "", raised |-> "none", ret |-> ""]

\* one call of a tool by a client of the server.  The server keeps nothing
\* between calls but the filesystem, and every filesystem is an initial
\* state, so a behaviour of SpecServer is one call.
Call(op, p, content, strict) ==
    LET r == RunTool(fs, op, p, content, strict)
    IN /\ last.op = "none"
       /\ NodeCount(r.fs) <= MaxNodes
       /\ fs' = r.fs
       /\ fs_before' = fs
       /\ last' = [op |-> op, path |-> p, content |-> content,
                   exc |-> r.exc, msg |-> r.msg, raised |-> r.raised,
                   ret |-> r.ret]
       /\ UNCHANGED <<scenarioVars, schemaVars, clientVars>>

read_file == \E p \in ArgPaths : Call("read_file", p, <<>>, TRUE)

write_file == \E p \in ArgPaths, c \in Texts : Call("write_file", p, c, TRUE)

list_directory ==
    \E p \in ArgPaths, strict \in BOOLEAN : Call("list_directory", p, <<>>, strict)

delete_file ==
    \E p \in ArgPaths, strict \in BOOLEAN : Call("delete_file", p, <<>>, strict)

create_directory == \E p \in ArgPaths : Call("create_directory", p, <<>>, TRUE)

file_info ==
    \E p \in ArgPaths, strict \in BOOLEAN : Call("file_info", p, <<>>, strict)

NoScenario ==
    /\ fs_start = EmptyFs
    /\ script = <<>>
    /\ results = <<>>

InitServer ==
    /\ AnyFs
    /\ fs_before = fs
    /\ last = NoCall
    /\ NoScenario
    /\ NoSchema
    /\ NoClient

NextServer ==
    \/ read_file
    \/ write_file
    \/ list_directory
    \/ delete_file
    \/ create_directory
    \/ file_info

SpecServer == InitServer /\ [][NextServer]_vars

-----------------------------------------------------------------------------
(* src/test_server.py: scripted sequences of tool calls                    *)

ToolCall(op, p, content) == [op |-> op, path |-> p, content |-> content]

\* Test 4 and Test 5 for any path and text: write, read back, delete; then
\* one more read of the deleted path
RoundTrip(p, t) ==
    <<ToolCall("write_file", p, t), ToolCall("read_file", p, <<>>),
      ToolCall("delete_file", p, <<>>), ToolCall("read_file", p, <<>>)>>

\* create_directory called twice on one path
MkdirTwice(p) ==
    <<ToolCall("create_directory", p, <<>>), ToolCall("create_directory", p, <<>>)>>

StartScenario(scripts) ==
    /\ AnyFs
    /\ fs_before = fs
    /\ fs_start = fs
    /\ last = NoCall
    /\ script \in scripts
    /\ results = <<>>
    /\ NoSchema
    /\ NoClient

InitRoundTrip == StartScenario({RoundTrip(p, t) : p \in Paths, t \in Texts})

InitMkdirTwice == StartScenario({MkdirTwice(p) : p \in ArgPaths})

\* await client.call_tool(...): the next call of the script
ScenarioStep ==
    /\ Len(results) < Len(script)
    /\ \E strict \in BOOLEAN :
          LET c == script[Len(results) + 1]
              r == RunTool(fs, c.op, c.path, c.content, strict)
          IN /\ NodeCount(r.fs) <= MaxNodes
             /\ fs' = r.fs
             /\ fs_before' = fs
             /\ results' = Append(results, [ret |-> r.ret, raised |-> r.raised,
                                            exc |-> r.exc])
    /\ UNCHANGED <<last, fs_start, script, schemaVars, clientVars>>

NextScenario == ScenarioStep

SpecRoundTrip == InitRoundTrip /\ [][NextScenario]_vars

SpecMkdirTwice == InitMkdirTwice /\ [][NextScenario]_vars

-----------------------------------------------------------------------------
(* Claims about the tools, under SpecServer                                *)

Called == last.op # "none"

\* C3: no fault raised while a tool runs leaves the call: whatever the
\* operation, the path and the filesystem, the call returns a string.
C3_NoFaultPropagates == Called => last.raised = "none"

\* a call whose function raised a fault that no specific clause names, and
\* that returned its text all the same
C3_Witness ==
    /\ Called
    /\ last.exc \in {"FileExistsError", "UnicodeDecodeError", "NotADirectoryError"}
    /\ last.raised = "none"
    /\ last.ret = GenericMsg(last.op, last.msg)

RecognizedFaults ==
    {"FileNotFoundError", "PermissionError", "IsADirectoryError", "NotADirectoryError"}

\* C4: a fault of one of the four recognized classes (not found, permission
\* denied, is a directory, not a directory) never gets the generic wrapper
\* message: that one is only for faults outside the four classes.
C4_RecognizedFaultNeverGeneric ==
    (Called /\ last.exc \in RecognizedFaults)
        => last.ret # GenericMsg(last.op, last.msg)

\* p names no entry of the filesystem f
Absent(f, p) == p # Root /\ f[p].kind = "none"

\* the lookup of p in f fails because p or an ancestor of p is missing,
\* every ancestor before the missing one being a directory that can be searched
Missing(f, p) == Stat(f, p) = "ENOENT"

NotFoundOps == {"read_file", "list_directory", "file_info", "delete_file"}

\* C5 as stated: read_file, list_directory, file_info and delete_file on any
\* path that does not exist return "Error: File not found - '<path>'", do
\* not raise and leave the filesystem unchanged (here for the filesystems
\* where every entry is accessible).
C5_AbsentGivesNotFound ==
    (/\ Called
     /\ last.op \in NotFoundOps
     /\ Absent(fs_before, last.path)
     /\ \A q \in Paths : ~fs_before[q].locked)
        => /\ last.ret = NotFoundMsg(last.path)
           /\ last.raised = "none"
           /\ fs = fs_before

\* C5 amended: the same, for the paths whose lookup fails on a missing
\* component (no ancestor is a regular file or an unsearchable directory).
C5_MissingGivesNotFound ==
    (Called /\ last.op \in NotFoundOps /\ Missing(fs_before, last.path))
        => /\ last.ret = NotFoundMsg(last.path)
           /\ last.raised = "none"
           /\ fs = fs_before

\* delete_file called on a missing path below an existing directory
C5_Witness ==
    /\ last.op = "delete_file"
    /\ Len(last.path) = 2
    /\ fs_before[Parent(last.path)].kind = "dir"
    /\ Missing(fs_before, last.path)
    /\ last.ret = NotFoundMsg(last.path)

-----------------------------------------------------------------------------
(* Claims about sequences of calls, under SpecRoundTrip and SpecMkdirTwice  *)

WroteMsg(p, t) ==
    "Successfully wrote " \o ToString(Len(t)) \o " characters to '" \o PathStr(p) \o "'"
DeletedMsg(p) == "Successfully deleted file '" \o PathStr(p) \o "'"
CreatedMsg(p) == "Successfully created directory '" \o PathStr(p) \o "'"

IsRoundTrip == Len(script) = 4
IsMkdirTwice == Len(script) = 2

\* C6: writing a text to a fresh path and reading the path returns exactly
\* the text; deleting it then succeeds, and reading it once more returns the
\* not-found error string.  Stated for the writes that succeeded.
C6_RoundTrip ==
    (/\ IsRoundTrip
     /\ Absent(fs_start, script[1].path)
     /\ Len(results) >= 1
     /\ results[1].ret = WroteMsg(script[1].path, script[1].content))
        => /\ Len(results) >= 2 => results[2].ret = Join(script[1].content)
           /\ Len(results) >= 3 => results[3].ret = DeletedMsg(script[1].path)
           /\ Len(results) >= 4 =>
                 /\ results[4].ret = NotFoundMsg(script[1].path)
                 /\ results[4].raised = "none"

\* C7 as stated: create_directory called twice on the same path returns the
\* success text both times, and the second call leaves the filesystem as
\* the first left it.
C7_MkdirTwiceSucceeds ==
    (IsMkdirTwice /\ Len(results) = 2)
        => /\ results[1].ret = CreatedMsg(script[1].path)
           /\ results[2].ret = CreatedMsg(script[1].path)
           /\ fs = fs_before

\* C7 amended: when a call of create_directory returns the success text, a
\* second call on the same path returns the success text too and leaves the
\* filesystem as the first left it.
C7_MkdirIdempotent ==
    (/\ IsMkdirTwice
     /\ Len(results) = 2
     /\ results[1].ret = CreatedMsg(script[1].path))
        => /\ results[2].ret = CreatedMsg(script[1].path)
           /\ results[2].raised = "none"
           /\ fs = fs_before

\* the first call created the directory and a parent, the second found it
C7_Witness ==
    /\ IsMkdirTwice
    /\ Len(results) = 2
    /\ Len(script[1].path) = 2
    /\ Absent(fs_start, Parent(script[1].path))
    /\ fs[script[1].path].kind = "dir"
    /\ results[1].ret = CreatedMsg(script[1].path)
    /\ results[2].ret = CreatedMsg(script[1].path)

-----------------------------------------------------------------------------
(* Claims about delete_file, under SpecServer                              *)

\* the filesystem f without the entry p
Without(f, p) == [f EXCEPT ![p] = NoNode]

-----------------------------------------------------------------------------
(* build_openai_tool_schema applied to a tool definition: SpecSchema       *)

ToolNames == {"read_file", "list_directory"}
Descriptions == {None, Str(""), Str("Read and return the contents of a file.")}

NoServer ==
    /\ fs = EmptyFs
    /\ fs_before = EmptyFs
    /\ last = NoCall

InitSchema ==
    /\ NoServer
    /\ NoScenario
    /\ NoClient
    /\ fetched \in InputSchemas
    /\ heap = <<fetched>>
    /\ tool \in [name : ToolNames, description : Descriptions, inputSchema : {1}]
    /\ spec_out = NoSpec

\* openai_tools = [build_openai_tool_schema(tool) for tool in tools]
BuildSchema ==
    /\ spec_out = NoSpec
    /\ LET r == build_openai_tool_schema(heap, tool)
       IN /\ heap' = r.heap
          /\ spec_out' = r.value
    /\ UNCHANGED <<tool, fetched, serverVars, scenarioVars, clientVars>>

NextSchema == BuildSchema

SpecSchema == InitSchema /\ [][NextSchema]_vars

Built == spec_out # NoSpec

\* C8: for every tool definition, the parameters build_openai_tool_schema
\* returns have "required" listing exactly the property names the tool's
\* input schema declares (each once), additionalProperties false and
\* strict true; the tool's own input schema is left as it was.
C8_SchemaStrict ==
    Built =>
        LET params == heap[spec_out.parameters]
            declared == Get(fetched, "properties", <<>>)
        IN /\ "required" \in Range(params.keys)
           /\ Range(params.required) = Range(declared)
           /\ Len(params.required) = Cardinality(Range(declared))
           /\ "additionalProperties" \in Range(params.keys)
           /\ params.additionalProperties = FALSE
           /\ spec_out.strict = TRUE
           /\ heap[tool.inputSchema] = fetched

\* a tool that declares two parameters, requires one of them and allows
\* additional properties, after the translation
C8_Witness ==
    /\ Built
    /\ Len(fetched.properties) = 2
    /\ Len(fetched.required) = 1
    /\ fetched.additionalProperties = TRUE
    /\ Len(heap[spec_out.parameters].required) = 2

-----------------------------------------------------------------------------
(* src/ai_client.py: main                                                  *)

\* what the user may type at the prompt, character by character
UserInputs ==
    {<<>>, <<" ">>,
     <<"q", "u", "i", "t">>, <<"Q", "U", "I", "T">>,
     <<" ", "E", "x", "i", "t", " ">>,
     <<"h", "i">>, <<" ", "h", "i", " ">>}

\* input() raised EOFError
EndOfInput == <<"EOF">>

Whitespace == {" "}

\* str.strip()
RECURSIVE LStrip(_)
LStrip(t) == IF t # <<>> /\ Head(t) \in Whitespace THEN LStrip(Tail(t)) ELSE t

RECURSIVE RStrip(_)
RStrip(t) ==
    IF t # <<>> /\ t[Len(t)] \in Whitespace THEN RStrip(SubSeq(t, 1, Len(t) - 1)) ELSE t

Strip(t) == RStrip(LStrip(t))

\* str.lower()
LowerChar(c) ==
    CASE c = "Q" -> "q" [] c = "U" -> "u" [] c = "I" -> "i" [] c = "T" -> "t"
      [] c = "E" -> "e" [] c = "X" -> "x" [] OTHER -> c

Lower(t) == [i \in DOMAIN t |-> LowerChar(t[i])]

QuitTokens == {<<"q", "u", "i", "t">>, <<"e", "x", "i", "t">>}

\* user_input in ("quit", "exit"), lower() left out
IsQuitCaseSensitive(t) == t \in QuitTokens

\* user_input.lower() in ("quit", "exit")
IsQuit(t) == Lower(t) \in QuitTokens

\* the tool calls the model may ask for: the function's name and its
\* arguments as json.loads gives them
ToolRequests ==
    {[name |-> "read_file", path |-> <<"a">>, content |-> <<>>],
     [name |-> "write_file", path |-> <<"a">>, content |-> <<"x">>]}

Contents == {None, Str("ok")}

\* the tool calls of a response: the requests with the ids the service
\* gives them
WithIds(reqs, first) ==
    [i \in DOMAIN reqs |->
        [id |-> first + i - 1, name |-> reqs[i].name,
         path |-> reqs[i].path, content |-> reqs[i].content]]

\* the responses the service may give when next_id is the next id
Responses ==
    {[content |-> c, tool_calls |-> WithIds(reqs, next_id)] :
        c \in Contents,
        reqs \in {q \in SeqsUpTo(ToolRequests, MaxCalls) : next_id + Len(q) - 1 <= MaxIds}}

otherVars == <<serverVars, scenarioVars, schemaVars>>

InitClient ==
    /\ NoServer
    /\ NoScenario
    /\ NoSchema
    /\ NoClient

\* the exception caught and the failed step tried again
AbortRetry ==
    /\ faulted' = TRUE
    /\ UNCHANGED <<pc, connected, messages, request, response, tool_calls, idx,
                   dispatched, turns, calls, next_id, otherVars>>

\* an exception nothing in main catches: it leaves the async with block,
\* which closes the session, and ends asyncio.run
Abort ==
    /\ pc' = "aborted"
    /\ connected' = FALSE
    /\ faulted' = TRUE
    /\ UNCHANGED <<messages, request, response, tool_calls, idx, dispatched,
                   turns, calls, next_id, otherVars>>

\* async with Client(...), list_tools() and the first message
Connect ==
    /\ pc = "start"
    /\ pc' = "input"
    /\ connected' = TRUE
    /\ messages' = <<SystemMessage>>
    /\ UNCHANGED <<typed, user_input, request, response, tool_calls, idx,
                   dispatched, faulted, turns, calls, next_id, otherVars>>

\* the server cannot be reached, or list_tools() fails
ConnectFault ==
    /\ pc = "start"
    /\ Abort
    /\ UNCHANGED <<typed, user_input>>

\* user_input = input("You: ").strip() and what main does with it
ReadInput ==
    /\ pc = "input"
    /\ \E raw \in UserInputs :
          /\ typed' = raw
          /\ user_input' = Strip(raw)
          /\ IF IsQuit(Strip(raw))
             THEN /\ pc' = "exited"
                  /\ connected' = FALSE
                  /\ UNCHANGED <<messages, turns, calls>>
             ELSE IF Strip(raw) = <<>>
             THEN UNCHANGED <<pc, connected, messages, turns, calls>>
             ELSE /\ turns < MaxTurns
                  /\ messages' = Append(messages,
                                        Message("user", Str(Join(Strip(raw))), <<>>, 0))
                  /\ pc' = "call1"
                  /\ turns' = turns + 1
                  /\ calls' = 0
                  /\ UNCHANGED connected
    /\ UNCHANGED <<request, response, tool_calls, idx, dispatched, faulted,
                   next_id, otherVars>>

\* input() raises EOFError
InputFault ==
    /\ pc = "input"
    /\ typed' = EndOfInput
    /\ UNCHANGED user_input
    /\ Abort

\* the assistant message for a response that asks for tools, "tool_calls"
\* left out
AssistantToolMessageNoCalls(r) == Message("assistant", r.content, <<>>, 0)

\* the assistant message for a response that asks for tools, carrying only
\* tool_calls[0]
AssistantToolMessageFirstOnly(r) ==
    Message("assistant", r.content, <<r.tool_calls[1]>>, 0)

\* the assistant message for a response that asks for tools
AssistantToolMessage(r) == Message("assistant", r.content, r.tool_calls, 0)

\* the assistant message with content written as (msg.content or "")
AssistantMessageOrEmpty(r) ==
    Message("assistant", IF Truthy(r.content) THEN r.content ELSE Str(""), <<>>, 0)

\* the assistant message of a response, its tool calls kept
AssistantMessageKeepCalls(r) == Message("assistant", r.content, r.tool_calls, 0)

\* the assistant message for any other response
AssistantMessage(r) == Message("assistant", r.content, <<>>, 0)

\* the first chat-completion call of a turn and the branch on its response
ModelCall ==
    /\ pc = "call1"
    /\ \E r \in Responses :
          /\ request' = messages
          /\ response' = r
          /\ calls' = calls + 1
          /\ next_id' = next_id + Len(r.tool_calls)
          /\ IF r.tool_calls # <<>>
             THEN /\ messages' = Append(messages, AssistantToolMessage(r))
                  /\ tool_calls' = r.tool_calls
                  /\ idx' = 1
                  /\ pc' = "exec"
             ELSE /\ messages' = Append(messages, AssistantMessage(r))
                  /\ pc' = "input"
                  /\ UNCHANGED <<tool_calls, idx>>
    /\ UNCHANGED <<connected, typed, user_input, dispatched, faulted, turns,
                   otherVars>>

\* the chat-completion call raises
ModelCallFault ==
    /\ pc \in {"call1", "call2"}
    /\ Abort
    /\ UNCHANGED <<typed, user_input>>

\* the for loop going through reversed(tool_calls)
CurrentCallReversed == tool_calls[Len(tool_calls) - idx + 1]

\* the tool call the for loop is at
CurrentCall == tool_calls[idx]

\* the message appended for a tool call's result, "tool_call_id" left out
ToolMessageUnlabelled(tc, text) == Message("tool", Str(text), <<>>, 0)

\* the message appended for a tool call's result
ToolMessage(tc, text) == Message("tool", Str(text), <<>>, tc.id)

\* one pass of the for loop: call_tool and the tool message
ExecTool ==
    /\ pc = "exec"
    /\ \E strict \in BOOLEAN :
          LET tc == CurrentCall
              r == RunTool(fs, tc.name, tc.path, tc.content, strict)
          IN /\ r.raised = "none"
             /\ NodeCount(r.fs) <= MaxNodes
             /\ fs' = r.fs
             /\ fs_before' = fs
             /\ dispatched' = Append(dispatched, tc.id)
             /\ messages' = Append(messages, ToolMessage(tc, r.ret))
    /\ idx' = idx + 1
    /\ pc' = IF idx = Len(tool_calls) THEN "call2" ELSE "exec"
    /\ UNCHANGED <<last, scenarioVars, schemaVars, connected, typed, user_input,
                   request, response, tool_calls, faulted, turns, calls, next_id>>

\* json.loads, call_tool or result[0] raises
ExecToolFault ==
    /\ pc = "exec"
    /\ Abort
    /\ UNCHANGED <<typed, user_input>>

\* the second chat-completion call, its message written over the last
\* message (messages[-1] = ...) instead of appended
FinalCallOverwrites ==
    /\ pc = "call2"
    /\ \E r \in Responses :
          /\ request' = messages
          /\ response' = r
          /\ calls' = calls + 1
          /\ next_id' = next_id + Len(r.tool_calls)
          /\ messages' = [messages EXCEPT ![Len(messages)] = AssistantMessage(r)]
    /\ pc' = "input"
    /\ UNCHANGED <<connected, typed, user_input, tool_calls, idx, dispatched,
                   faulted, turns, otherVars>>

\* the second chat-completion call written as the head of a loop: a
\* response with tool calls is handled like the first one
FinalCallLoops ==
    /\ pc = "call2"
    /\ \E r \in Responses :
          /\ request' = messages
          /\ response' = r
          /\ calls' = calls + 1
          /\ next_id' = next_id + Len(r.tool_calls)
          /\ IF r.tool_calls # <<>>
             THEN /\ messages' = Append(messages, AssistantToolMessage(r))
                  /\ tool_calls' = r.tool_calls
                  /\ idx' = 1
                  /\ pc' = "exec"
             ELSE /\ messages' = Append(messages, AssistantMessage(r))
                  /\ pc' = "input"
                  /\ UNCHANGED <<tool_calls, idx>>
    /\ UNCHANGED <<connected, typed, user_input, dispatched, faulted, turns,
                   otherVars>>

\* the chat-completion call after the tools ran, and its message
FinalCall ==
    /\ pc = "call2"
    /\ \E r \in Responses :
          /\ request' = messages
          /\ response' = r
          /\ calls' = calls + 1
          /\ next_id' = next_id + Len(r.tool_calls)
          /\ messages' = Append(messages, AssistantMessage(r))
    /\ pc' = "input"
    /\ UNCHANGED <<connected, typed, user_input, tool_calls, idx, dispatched,
                   faulted, turns, otherVars>>

Next ==
    \/ Connect
    \/ ConnectFault
    \/ ReadInput
    \/ InputFault
    \/ ModelCall
    \/ ModelCallFault
    \/ ExecTool
    \/ ExecToolFault
    \/ FinalCall

Spec == InitClient /\ [][Next]_vars

\* every chat-completion call and every tool invocation comes back: main
\* awaits each of them and does nothing else meanwhile, so a step that can
\* go on does go on (by returning, or by raising in one of the fault steps)
Fairness ==
    /\ WF_vars(ModelCall \/ ModelCallFault)
    /\ WF_vars(ExecTool \/ ExecToolFault)
    /\ WF_vars(FinalCall \/ ModelCallFault)

FairSpec == InitClient /\ [][Next]_vars /\ Fairness

-----------------------------------------------------------------------------
(* Claims about the loop, under Spec                                       *)

\* C1: the loop repeats until the model answers without tool calls: the
\* tool calls of any response of a turn, the one after the tools ran
\* included, are executed, and the loop is back at the prompt only after a
\* response that carries no tool calls.
C1_LoopUntilFinalAnswer ==
    /\ pc = "input" => response.tool_calls = <<>>
    /\ (response.tool_calls # <<>> /\ ~faulted)
          => (pc \in {"exec", "call2"} /\ tool_calls = response.tool_calls)

\* C2: when the loop has executed the N tool calls of a response, the
\* conversation is the one sent to the model, the assistant message that
\* carries the calls, and exactly N tool messages, the i-th with the id of
\* the i-th call.
C2_ToolMessagesInOrder ==
    pc = "call2" =>
        LET n == Len(tool_calls)
            base == Len(request) + 1
        IN /\ n >= 1
           /\ tool_calls = response.tool_calls
           /\ Len(messages) = base + n
           /\ SubSeq(messages, 1, Len(request)) = request
           /\ messages[base].role = "assistant"
           /\ messages[base].tool_calls = tool_calls
           /\ \A i \in 1..n :
                 /\ messages[base + i].role = "tool"
                 /\ messages[base + i].tool_call_id = tool_calls[i].id
           /\ \A i, j \in 1..n : i # j => tool_calls[i].id # tool_calls[j].id

\* two tool calls of one response executed, the second chat-completion call
\* not yet made
C2_Witness ==
    /\ pc = "call2"
    /\ Len(tool_calls) = 2
    /\ messages[Len(messages)].role = "tool"
    /\ messages[Len(messages)].tool_call_id = tool_calls[2].id

\* C9: a fault of a chat-completion call or of a tool call is not retried
\* and ends the session: once a fault has happened main is over and the
\* session closed, and from the fault on no message is appended, no model
\* call made and no tool dispatched.
C9_FaultAborts ==
    /\ [](faulted => (pc = "aborted" /\ ~connected))
    /\ [][faulted' => /\ messages' = messages
                      /\ request' = request
                      /\ calls' = calls
                      /\ dispatched' = dispatched
                      /\ fs' = fs]_vars

\* a fault in the middle of a turn: the first of two tool calls ran, the
\* second was never dispatched
C9_Witness ==
    /\ faulted
    /\ pc = "aborted"
    /\ ~connected
    /\ Len(tool_calls) = 2
    /\ Len(dispatched) = 1
    /\ messages[Len(messages)].role = "tool"

Blank(t) == \A i \in DOMAIN t : t[i] = " "

QuitSpellings == {<<"q", "u", "i", "t">>, <<"Q", "U", "I", "T">>}

C11_NoToolCallsAnswer ==
    /\ [][(pc \in {"call1", "call2"} /\ ~faulted' /\ response'.tool_calls = <<>>) =>
             /\ messages' = Append(messages,
                                   Message("assistant", response'.content, <<>>, 0))
             /\ dispatched' = dispatched
             /\ fs' = fs
             /\ pc' = "input"]_vars
    /\ []((/\ pc = "input"
           /\ calls = 2
           /\ Len(tool_calls) = 1
           /\ response.tool_calls = <<>>) =>
             LET n == Len(messages)
             IN /\ n >= 5
                /\ messages[n - 3].role = "user"
                /\ messages[n - 2].role = "assistant"
                /\ messages[n - 2].tool_calls = tool_calls
                /\ messages[n - 1].role = "tool"
                /\ messages[n - 1].tool_call_id = tool_calls[1].id
                /\ messages[n] = Message("assistant", response.content, <<>>, 0))

\* the full turn with one tool call, the final response's content null
C11_Witness ==
    /\ pc = "input"
    /\ calls = 2
    /\ Len(tool_calls) = 1
    /\ response = [content |-> None, tool_calls |-> <<>>]
    /\ Len(messages) = 5
    /\ messages[5].content = None
    /\ dispatched = <<tool_calls[1].id>>

\* C12: a fault of a tool never aborts the turn: at every dispatch the tool
\* returns a string and raises nothing; the string, an error string
\* included, is appended as a tool message with the id of the call, the
\* loop goes on with the remaining calls, and after the last one the model
\* is called with the conversation that holds these messages.
C12_ToolFaultIsToolMessage ==
    /\ [](pc = "exec" =>
             \A strict \in BOOLEAN :
                RunTool(fs, CurrentCall.name, CurrentCall.path,
                        CurrentCall.content, strict).raised = "none")
    /\ [][(pc = "exec" /\ ~faulted') =>
             \E strict \in BOOLEAN :
                LET r == RunTool(fs, tool_calls[idx].name, tool_calls[idx].path,
                                 tool_calls[idx].content, strict)
                IN /\ messages' = Append(messages,
                                         Message("tool", Str(r.ret), <<>>,
                                                 tool_calls[idx].id))
                   /\ connected'
                   /\ tool_calls' = tool_calls
                   /\ idx' = idx + 1
                   /\ pc' = IF idx < Len(tool_calls) THEN "exec" ELSE "call2"]_vars
    /\ [][(pc = "call2" /\ ~faulted') => (request' = messages /\ calls' = calls + 1)]_vars

\* read_file on a missing file, then write_file: the error string of the
\* first is a tool message, the second ran, and the model got both
C12_Witness ==
    /\ pc = "input"
    /\ calls = 2
    /\ Len(tool_calls) = 2
    /\ Len(request) >= 5
    /\ request[Len(request) - 1] =
          Message("tool", Str(NotFoundMsg(<<"a">>)), <<>>, tool_calls[1].id)
    /\ request[Len(request)].role = "tool"
    /\ request[Len(request)].tool_call_id = tool_calls[2].id
    /\ fs[<<"a">>].kind = "file"

\* the ids of the tool calls the model has produced so far in the session
ProducedIds == 1..(next_id - 1)

\* C14: every tool call the model produces, in any response of the
\* session, is dispatched exactly once: no id is dispatched twice, only
\* produced ids are dispatched, and when the loop is back at the prompt
\* every id produced so far has been dispatched.
C14_EveryRequestDispatchedOnce ==
    /\ \A i, j \in DOMAIN dispatched : i # j => dispatched[i] # dispatched[j]
    /\ Range(dispatched) \subseteq ProducedIds
    /\ pc = "input" => ProducedIds \subseteq Range(dispatched)

\* every tool call carried by an assistant message of msgs has a tool
\* message with its id later in msgs
Answered(msgs) ==
    \A i \in DOMAIN msgs :
        msgs[i].role = "assistant" =>
            \A k \in DOMAIN msgs[i].tool_calls :
                \E j \in DOMAIN msgs :
                    /\ j > i
                    /\ msgs[j].role = "tool"
                    /\ msgs[j].tool_call_id = msgs[i].tool_calls[k].id

\* C15: when a chat-completion call begins, every tool call carried by an
\* assistant message of the conversation sent to the model has a tool
\* message with its id after that assistant message: no model call begins
\* while a requested call lacks its result.
C15_NoCallWithPendingRequest ==
    /\ Answered(request)
    /\ pc \in {"call1", "call2"} => Answered(messages)

\* the first call of a second turn, sent with the two tool calls of the
\* first turn and their results in the conversation
C15_Witness ==
    /\ turns = 2
    /\ calls = 1
    /\ Len(request) = 7
    /\ Len(request[3].tool_calls) = 2
    /\ request[4].role = "tool"
    /\ request[5].role = "tool"

\* C16: every tool message of the conversation comes after an assistant
\* message whose tool calls contain the tool message's tool_call_id.
C16_ToolMessageHasRequest ==
    \A j \in DOMAIN messages :
        messages[j].role = "tool" =>
            \E i \in 1..(j - 1) :
                /\ messages[i].role = "assistant"
                /\ \E k \in DOMAIN messages[i].tool_calls :
                       messages[i].tool_calls[k].id = messages[j].tool_call_id

\* tool messages of two turns, each after the assistant message of its turn
C16_Witness ==
    /\ turns = 2
    /\ Len(messages) >= 8
    /\ messages[4].role = "tool"
    /\ messages[Len(messages)].role = "tool"
    /\ messages[Len(messages)].tool_call_id # messages[4].tool_call_id
    /\ messages[Len(messages) - 1].role = "assistant"

IsPrefix(a, b) == Len(a) <= Len(b) /\ SubSeq(b, 1, Len(a)) = a

\* C17: the conversation is append-only: in every step of the loop the
\* messages before the step are a prefix of the messages after it.
C17_AppendOnly == [][IsPrefix(messages, messages')]_vars

\* two complete turns, the second with a tool call: nine messages, the
\* first still the system message
C17_Witness ==
    /\ pc = "input"
    /\ turns = 2
    /\ calls = 2
    /\ Len(messages) = 9
    /\ messages[1] = SystemMessage
    /\ messages[2].role = "user"

\* C18: a tool is dispatched only when the conversation already holds the
\* assistant message that carries the whole list of tool calls of the
\* response, the dispatched call among them.
C18_AssistantBeforeDispatch ==
    /\ [](pc = "exec" =>
             /\ response.tool_calls # <<>>
             /\ tool_calls = response.tool_calls
             /\ Len(messages) >= Len(request) + 1
             /\ messages[Len(request) + 1] =
                   Message("assistant", response.content, response.tool_calls, 0))
    /\ [][dispatched' # dispatched =>
             /\ dispatched' = Append(dispatched, tool_calls[idx].id)
             /\ \E i \in DOMAIN messages :
                   /\ messages[i].role = "assistant"
                   /\ messages[i].tool_calls = response.tool_calls
                   /\ \E k \in DOMAIN messages[i].tool_calls :
                          messages[i].tool_calls[k].id = tool_calls[idx].id]_vars

\* between the two dispatches of a response with two tool calls
C18_Witness ==
    /\ pc = "exec"
    /\ idx = 2
    /\ Len(tool_calls) = 2
    /\ dispatched = <<tool_calls[1].id>>
    /\ messages[Len(messages) - 1].tool_calls = tool_calls
    /\ messages[Len(messages)].role = "tool"

\* msgs starts with the one system message, ends with it or with an
\* assistant message without tool calls, and every assistant message with k
\* tool calls is followed at once by exactly k tool messages, their ids
\* those of the calls in order
WellFormedConversation(msgs) ==
    LET n == Len(msgs)
    IN /\ n >= 1
       /\ msgs[1] = SystemMessage
       /\ \A i \in 2..n : msgs[i].role # "system"
       /\ n = 1 \/ (msgs[n].role = "assistant" /\ msgs[n].tool_calls = <<>>)
       /\ \A i \in 1..n :
             (msgs[i].role = "assistant" /\ msgs[i].tool_calls # <<>>) =>
                LET k == Len(msgs[i].tool_calls)
                IN /\ i + k <= n
                   /\ \A j \in 1..k :
                         /\ msgs[i + j].role = "tool"
                         /\ msgs[i + j].tool_call_id = msgs[i].tool_calls[j].id
                   /\ i + k + 1 <= n => msgs[i + k + 1].role # "tool"
       /\ \A j \in 1..n :
             msgs[j].role = "tool" =>
                \E i \in 1..(j - 1) :
                    /\ msgs[i].role = "assistant"
                    /\ j - i <= Len(msgs[i].tool_calls)

\* C19: whenever the loop is at the prompt, the conversation is well-formed
\* for the next request.
C19_WellFormedAtPrompt == pc = "input" => WellFormedConversation(messages)

\* at the prompt after a turn whose second response asked for tools again:
\* the last message is an assistant message without tool calls
C19_Witness ==
    /\ pc = "input"
    /\ calls = 2
    /\ Len(tool_calls) = 2
    /\ response.tool_calls # <<>>
    /\ Len(messages) = 6
    /\ messages[6].tool_calls = <<>>

\* main is inside a turn: between the user's line and the next prompt
InTurn == pc \in {"call1", "exec", "call2"}

\* C20: when every chat-completion call and every tool invocation returns,
\* a turn ends: the loop is back at the prompt (or a call has raised and
\* main is over), and a turn makes at most two chat-completion calls,
\* whatever the model answers.
C20_TurnTerminates ==
    /\ [](calls <= 2)
    /\ [](InTurn => calls <= 1)
    /\ InTurn ~> (pc = "input" \/ faulted)

\* a turn in which both responses asked for tools: over after two calls
C20_Witness ==
    /\ pc = "input"
    /\ ~faulted
    /\ calls = 2
    /\ Len(tool_calls) = 1
    /\ Len(response.tool_calls) = 2
    /\ Len(dispatched) = 1

====
